---- MODULE Spec2Model ----
(***************************************************************************)
(* Model of descriptastorus/raw.py: a fixed-width binary row store made of *)
(* a pickled descriptor file (__rawformat__) and a data file (__store___)  *)
(* accessed through mmap.                                                  *)
(*                                                                         *)
(* Python values are records [t, i, s]: t is the Python type, i an integer *)
(* payload, s a sequence payload (character codes of a str, byte values of *)
(* a bytes object).  Python strings that are struct formats are sequences  *)
(* of one-character strings, so that slicing and indexing by character     *)
(* (pack_format[:column], pack_format[column]) can be modelled.            *)
(* struct formats carry no byte-order prefix in raw.py, so struct works in *)
(* native mode: native sizes and native alignment (LP64, little endian).   *)
(***************************************************************************)
EXTENDS Integers, Sequences, FiniteSets, TLC

(***************************************************************************)
(* Bounds of the model.                                                    *)
(***************************************************************************)
\* the largest row count a store is created with
MaxN == 2
\* the largest row count a store that is then grown is created with
MaxGrowN == 3
\* the largest number of rows one appendBlankRows call adds
MaxM == 2
\* the row count beyond which the model grows a store no further
MaxRows == 5

\* the RawStoreIter objects obtained from one store
MaxIters == 2

\* the next() calls made on an iterator that is exhausted
MaxPast == 2

(***************************************************************************)
(* Python values.                                                          *)
(***************************************************************************)
PyInt(n) == [t |-> "int", i |-> n, s |-> <<>>]
PyBool(b) == [t |-> "bool", i |-> IF b THEN 1 ELSE 0, s |-> <<>>]
PyFloat(n) == [t |-> "float", i |-> n, s |-> <<>>]
PyStr(chars) == [t |-> "str", i |-> 0, s |-> chars]
PyBytes(bs) == [t |-> "bytes", i |-> 0, s |-> bs]
PyNone == [t |-> "None", i |-> 0, s |-> <<>>]
\* a number read from bytes that the model's integers cannot hold (or a
\* float that is not a small whole number) is kept as the bytes read
PyRaw(ty, bs) == [t |-> ty, i |-> 0, s |-> bs]

Zeros(n) == [k \in 1..n |-> 0]

RECURSIVE Pow(_, _)
Pow(b, e) == IF e = 0 THEN 1 ELSE b * Pow(b, e - 1)

RECURSIVE Flatten(_)
Flatten(ss) == IF ss = <<>> THEN <<>> ELSE Head(ss) \o Flatten(Tail(ss))

Reverse(s) == [k \in 1..Len(s) |-> s[Len(s) + 1 - k]]

Take(s, n) == SubSeq(s, 1, IF n < Len(s) THEN n ELSE Len(s))

\* Python's s[a:a+n] on a sequence (0-based a), clipped at the end
Slice(s, a, n) == SubSeq(s, a + 1, IF a + n < Len(s) THEN a + n ELSE Len(s))

(***************************************************************************)
(* str(), int(), float(), bool() and the store's own str_store and         *)
(* convert_string.                                                         *)
(***************************************************************************)
RECURSIVE DecChars(_)
DecChars(n) == IF n < 10 THEN <<48 + n>> ELSE DecChars(n \div 10) \o <<48 + (n % 10)>>

HexChar(d) == IF d < 10 THEN 48 + d ELSE 87 + d

\* one byte inside repr(bytes), delimited by the quote character q
ReprByte(b, q) ==
    IF b = 92 THEN <<92, 92>>
    ELSE IF b = q THEN <<92, q>>
    ELSE IF b = 9 THEN <<92, 116>>
    ELSE IF b = 10 THEN <<92, 110>>
    ELSE IF b = 13 THEN <<92, 114>>
    ELSE IF b >= 32 /\ b <= 126 THEN <<b>>
    ELSE <<92, 120, HexChar(b \div 16), HexChar(b % 16)>>

\* repr of a Python 3 bytes object: b'...' with non-printable bytes as \xhh
ReprBytes(bs) ==
    LET hasS == \E k \in 1..Len(bs) : bs[k] = 39
        hasD == \E k \in 1..Len(bs) : bs[k] = 34
        q == IF hasS /\ ~hasD THEN 34 ELSE 39
    IN <<98, q>> \o Flatten([k \in 1..Len(bs) |-> ReprByte(bs[k], q)]) \o <<q>>

\* str(v) for the values a caller can pass (never a PyRaw)
Str(v) ==
    CASE v.t = "int" -> IF v.i < 0 THEN <<45>> \o DecChars(0 - v.i) ELSE DecChars(v.i)
      [] v.t = "bool" -> IF v.i = 1 THEN <<84, 114, 117, 101>> ELSE <<70, 97, 108, 115, 101>>
      [] v.t = "float" -> (IF v.i < 0 THEN <<45>> \o DecChars(0 - v.i) ELSE DecChars(v.i)) \o <<46, 48>>
      [] v.t = "str" -> v.s
      [] v.t = "bytes" -> ReprBytes(v.s)
      [] v.t = "None" -> <<78, 111, 110, 101>>

IsDigits(cs) == cs # <<>> /\ \A k \in 1..Len(cs) : cs[k] >= 48 /\ cs[k] <= 57

RECURSIVE DigitsVal(_)
DigitsVal(cs) == IF cs = <<>> THEN 0 ELSE 10 * DigitsVal(SubSeq(cs, 1, Len(cs) - 1)) + (cs[Len(cs)] - 48)

\* a decimal integer literal: optional sign, then digits
IsIntLiteral(cs) ==
    IF cs # <<>> /\ cs[1] \in {43, 45} THEN IsDigits(Tail(cs)) ELSE IsDigits(cs)

IntLiteralVal(cs) ==
    IF cs[1] = 45 THEN 0 - DigitsVal(Tail(cs))
    ELSE IF cs[1] = 43 THEN DigitsVal(Tail(cs))
    ELSE DigitsVal(cs)

Truthy(v) ==
    CASE v.t \in {"int", "bool", "float"} -> v.i # 0 \/ v.s # <<>>
      [] v.t \in {"str", "bytes"} -> v.s # <<>>
      [] v.t = "None" -> FALSE

\* str_store(s) = str.encode(str(s)): bytes on Python 3, str on Python 2
str_store(v, p3) == IF p3 THEN PyBytes(Str(v)) ELSE PyStr(Str(v))

\* convert_string(v): a str is encoded, anything else passes through
convert_string(v, p3) == IF v.t = "str" THEN (IF p3 THEN PyBytes(v.s) ELSE PyStr(v.s)) ELSE v

\* dtype(v) for dtype in int, float, bool, str_store: the value, or the
\* exception the conversion raises
Coerce(dtype, v, p3) ==
    CASE dtype = "int" ->
           (CASE v.t \in {"int", "bool", "float"} -> [err |-> "", val |-> PyInt(v.i)]
              [] v.t \in {"str", "bytes"} ->
                   IF IsIntLiteral(v.s) THEN [err |-> "", val |-> PyInt(IntLiteralVal(v.s))]
                   ELSE [err |-> "ValueError", val |-> PyNone]
              [] v.t = "None" -> [err |-> "TypeError", val |-> PyNone])
      [] dtype = "float" ->
           (CASE v.t \in {"int", "bool", "float"} -> [err |-> "", val |-> PyFloat(v.i)]
              [] v.t \in {"str", "bytes"} ->
                   IF IsIntLiteral(v.s) THEN [err |-> "", val |-> PyFloat(IntLiteralVal(v.s))]
                   ELSE [err |-> "ValueError", val |-> PyNone]
              [] v.t = "None" -> [err |-> "TypeError", val |-> PyNone])
      [] dtype = "bool" -> [err |-> "", val |-> PyBool(Truthy(v))]
      [] dtype = "str_store" -> [err |-> "", val |-> str_store(v, p3)]

(***************************************************************************)
(* The struct module in native mode: format parsing, field layout with     *)
(* native alignment, pack and unpack.                                      *)
(***************************************************************************)
DigitChars == <<"0", "1", "2", "3", "4", "5", "6", "7", "8", "9">>

IsDigitChar(c) == \E d \in 1..10 : DigitChars[d] = c

DigitOf(c) == (CHOOSE d \in 1..10 : DigitChars[d] = c) - 1

FormatCodes == {"i", "q", "B", "H", "I", "Q", "f", "d", "?", "s"}

RECURSIVE IntToChars(_)
IntToChars(n) == IF n < 10 THEN <<DigitChars[n + 1]>> ELSE IntToChars(n \div 10) \o <<DigitChars[(n % 10) + 1]>>

\* the items of a format string from character k on; cnt is the repeat count
\* read so far (-1: none).  A count with no format character after it and an
\* unknown character are struct.error.
RECURSIVE ParseFrom(_, _, _)
ParseFrom(fmt, k, cnt) ==
    IF k > Len(fmt) THEN [ok |-> cnt = -1, items |-> <<>>]
    ELSE IF IsDigitChar(fmt[k]) THEN
        ParseFrom(fmt, k + 1, (IF cnt = -1 THEN 0 ELSE cnt) * 10 + DigitOf(fmt[k]))
    ELSE IF fmt[k] \notin FormatCodes THEN [ok |-> FALSE, items |-> <<>>]
    ELSE LET rest == ParseFrom(fmt, k + 1, -1)
         IN [ok |-> rest.ok,
             items |-> <<[code |-> fmt[k], count |-> IF cnt = -1 THEN 1 ELSE cnt]>> \o rest.items]

ParseFmt(fmt) == ParseFrom(fmt, 1, -1)

\* native size of one element
CodeSize(code) ==
    CASE code \in {"i", "I", "f"} -> 4
      [] code \in {"q", "Q", "d"} -> 8
      [] code = "H" -> 2
      [] code \in {"B", "?", "s"} -> 1

\* native alignment of one element: its size; char arrays are unaligned
CodeAlign(code) == IF code = "s" THEN 1 ELSE CodeSize(code)

\* one field per argument: "4s" is one field of 4 bytes, "2i" two of 4
ItemFields(item) ==
    IF item.code = "s" THEN <<[code |-> "s", size |-> item.count]>>
    ELSE [k \in 1..item.count |-> [code |-> item.code, size |-> CodeSize(item.code)]]

Fields(items) == Flatten([k \in 1..Len(items) |-> ItemFields(items[k])])

AlignUp(pos, a) == ((pos + a - 1) \div a) * a

\* start offset of every field, each aligned to its native alignment
RECURSIVE OffsetsFrom(_, _, _)
OffsetsFrom(fields, k, pos) ==
    IF k > Len(fields) THEN <<>>
    ELSE LET at == AlignUp(pos, CodeAlign(fields[k].code))
         IN <<at>> \o OffsetsFrom(fields, k + 1, at + fields[k].size)

FieldOffsets(fields) == OffsetsFrom(fields, 1, 0)

\* struct.calcsize over parsed fields (no trailing padding in native mode)
CalcSize(fields) ==
    IF fields = <<>> THEN 0
    ELSE FieldOffsets(fields)[Len(fields)] + fields[Len(fields)].size

\* byte k (0 = least significant) of the two's complement of v
ByteOf(v, k) ==
    IF v >= 0 THEN (IF k >= 4 THEN 0 ELSE (v \div Pow(256, k)) % 256)
    ELSE 255 - (IF k >= 4 THEN 0 ELSE ((0 - v - 1) \div Pow(256, k)) % 256)

IntBytes(v, n) == [k \in 1..n |-> ByteOf(v, k - 1)]

IntInRange(code, v) ==
    CASE code = "B" -> v >= 0 /\ v <= 255
      [] code = "H" -> v >= 0 /\ v <= 65535
      [] code \in {"I", "Q"} -> v >= 0
      [] code \in {"i", "q"} -> TRUE

RECURSIVE LowVal(_, _)
LowVal(bs, k) == IF k = 0 THEN 0 ELSE LowVal(bs, k - 1) + bs[k] * Pow(256, k - 1)

\* the integer in little-endian bytes bs
IntFromBytes(bs, signed) ==
    LET n == Len(bs)
        hi(b) == \A k \in 5..n : bs[k] = b
    IN IF n < 4 THEN PyInt(LowVal(bs, n))
       ELSE IF bs[4] < 128 /\ hi(0) THEN PyInt(LowVal(bs, 4))
       ELSE IF signed /\ bs[4] >= 128 /\ hi(255)
            THEN PyInt(0 - 1 - LowVal([k \in 1..4 |-> 255 - bs[k]], 4))
       ELSE PyRaw("int", bs)

BitsOf(n, w) == [k \in 1..w |-> (n \div Pow(2, w - k)) % 2]

RECURSIVE BitsVal(_)
BitsVal(bits) == IF bits = <<>> THEN 0 ELSE 2 * BitsVal(SubSeq(bits, 1, Len(bits) - 1)) + bits[Len(bits)]

RECURSIVE Log2(_)
Log2(n) == IF n < 2 THEN 0 ELSE 1 + Log2(n \div 2)

\* IEEE 754 little-endian bytes of the whole number v (|v| < 2^24), with eb
\* exponent bits and mb mantissa bits
FloatBytes(v, eb, mb) ==
    LET a == IF v < 0 THEN 0 - v ELSE v
        e == Log2(a)
        bias == Pow(2, eb - 1) - 1
        bits == IF a = 0 THEN Zeros(1 + eb + mb)
                ELSE <<IF v < 0 THEN 1 ELSE 0>> \o BitsOf(e + bias, eb)
                     \o BitsOf(a - Pow(2, e), e) \o Zeros(mb - e)
        nb == (1 + eb + mb) \div 8
    IN Reverse([k \in 1..nb |-> BitsVal(SubSeq(bits, 8 * k - 7, 8 * k))])

FloatFromBytes(bs, eb, mb) ==
    LET be == Reverse(bs)
        bits == Flatten([k \in 1..Len(be) |-> BitsOf(be[k], 8)])
        bias == Pow(2, eb - 1) - 1
        e == BitsVal(SubSeq(bits, 2, 1 + eb)) - bias
        mant == SubSeq(bits, 2 + eb, 1 + eb + mb)
    IN IF \A k \in 1..Len(bits) : bits[k] = 0 THEN PyFloat(0)
       ELSE IF e >= 0 /\ e <= 23 /\ \A k \in (e + 1)..mb : mant[k] = 0
            THEN PyFloat((IF bits[1] = 1 THEN 0 - 1 ELSE 1) * (Pow(2, e) + BitsVal(SubSeq(mant, 1, e))))
       ELSE PyRaw("float", bs)

\* one argument packed into one field, or struct.error
PackField(f, v, p3) ==
    CASE f.code \in {"i", "q", "B", "H", "I", "Q"} ->
           IF v.t \in {"int", "bool"} /\ IntInRange(f.code, v.i)
           THEN [ok |-> TRUE, bytes |-> IntBytes(v.i, f.size)]
           ELSE [ok |-> FALSE, bytes |-> <<>>]
      [] f.code = "f" ->
           IF v.t \in {"int", "bool", "float"}
           THEN [ok |-> TRUE, bytes |-> FloatBytes(v.i, 8, 23)]
           ELSE [ok |-> FALSE, bytes |-> <<>>]
      [] f.code = "d" ->
           IF v.t \in {"int", "bool", "float"}
           THEN [ok |-> TRUE, bytes |-> FloatBytes(v.i, 11, 52)]
           ELSE [ok |-> FALSE, bytes |-> <<>>]
      [] f.code = "?" -> [ok |-> TRUE, bytes |-> <<IF Truthy(v) THEN 1 ELSE 0>>]
      [] f.code = "s" ->
           IF v.t = (IF p3 THEN "bytes" ELSE "str")
           THEN [ok |-> TRUE, bytes |-> Take(v.s, f.size) \o Zeros(f.size - Len(Take(v.s, f.size)))]
           ELSE [ok |-> FALSE, bytes |-> <<>>]

UnpackField(f, bs, p3) ==
    CASE f.code \in {"i", "q"} -> IntFromBytes(bs, TRUE)
      [] f.code \in {"B", "H", "I", "Q"} -> IntFromBytes(bs, FALSE)
      [] f.code = "f" -> FloatFromBytes(bs, 8, 23)
      [] f.code = "d" -> FloatFromBytes(bs, 11, 52)
      [] f.code = "?" -> PyBool(bs[1] # 0)
      [] f.code = "s" -> IF p3 THEN PyBytes(bs) ELSE PyStr(bs)

\* struct.pack(fmt, *args): the bytes, or ok = FALSE for struct.error (bad
\* format, wrong number of arguments, argument of the wrong type or range)
Pack(fmt, args, p3) ==
    LET parsed == ParseFmt(fmt)
        fields == Fields(parsed.items)
        offs == FieldOffsets(fields)
        encs == [k \in 1..Len(fields) |-> PackField(fields[k], args[k], p3)]
        byteAt(p) ==
            IF \E k \in 1..Len(fields) : p >= offs[k] /\ p < offs[k] + fields[k].size
            THEN LET k == CHOOSE j \in 1..Len(fields) : p >= offs[j] /\ p < offs[j] + fields[j].size
                 IN encs[k].bytes[p - offs[k] + 1]
            ELSE 0
    IN IF ~parsed.ok \/ Len(args) # Len(fields) THEN [ok |-> FALSE, bytes |-> <<>>]
       ELSE IF \E k \in 1..Len(fields) : ~encs[k].ok THEN [ok |-> FALSE, bytes |-> <<>>]
       ELSE [ok |-> TRUE, bytes |-> [p \in 1..CalcSize(fields) |-> byteAt(p - 1)]]

\* struct.unpack(fmt, bytes): the tuple, or ok = FALSE for struct.error (bad
\* format, or a buffer that is not exactly calcsize(fmt) bytes long)
Unpack(fmt, bs, p3) ==
    LET parsed == ParseFmt(fmt)
        fields == Fields(parsed.items)
        offs == FieldOffsets(fields)
    IN IF ~parsed.ok \/ Len(bs) # CalcSize(fields) THEN [ok |-> FALSE, vals |-> <<>>]
       ELSE [ok |-> TRUE,
             vals |-> [k \in 1..Len(fields) |->
                         UnpackField(fields[k], SubSeq(bs, offs[k] + 1, offs[k] + fields[k].size), p3)]]

(***************************************************************************)
(* Mode, and the logical column types MakeStore is called with.            *)
(* A logical type is [kind, itemsize]: kind is the name of a numpy scalar  *)
(* class ("int32" ... "bool"), "S" for a numpy.dtype whose .type is        *)
(* numpy.string_, "U" for a numpy.dtype of any other type (it has a 'type' *)
(* attribute), "object" for a class that is no numpy type at all.          *)
(***************************************************************************)
READONLY == 0
WRITE == 1
APPEND == 2
READONCE == 3

NumpyType(kind) == [kind |-> kind, itemsize |-> 0]
NumpyString(w) == [kind |-> "S", itemsize |-> w]
NumpyUnicode(w) == [kind |-> "U", itemsize |-> w]

ScalarKinds == {"int32", "int64", "uint8", "uint16", "uint32", "uint64", "float32", "float64", "bool"}

\* the struct code MakeStore assigns to a numpy scalar type
TypeCode(kind) ==
    CASE kind = "int32" -> "i"
      [] kind = "int64" -> "q"
      [] kind = "uint8" -> "B"
      [] kind = "uint16" -> "H"
      [] kind = "uint32" -> "I"
      [] kind = "uint64" -> "Q"
      [] kind = "float32" -> "f"
      [] kind = "float64" -> "d"
      [] kind = "bool" -> "?"

\* the Python conversion MakeStore assigns to a numpy scalar type
TypeConv(kind) ==
    CASE kind \in {"int32", "int64", "uint8", "uint16", "uint32", "uint64"} -> "int"
      [] kind \in {"float32", "float64"} -> "float"
      [] kind = "bool" -> "bool"

HasTypeAttr(dtype) == dtype.kind \in {"S", "U"}

\* the loop of MakeStore over cols from column k on.  type is the loop's
\* local variable, bound is whether it has been assigned yet: a dtype that
\* has a 'type' attribute but is no string type assigns neither type nor
\* dtypes, and types.append(type) then appends the previous column's type
\* (or raises UnboundLocalError on the first column).
RECURSIVE DeriveFrom(_, _, _, _, _, _, _)
DeriveFrom(cols, k, names, types, dtypes, type, bound) ==
    IF k > Len(cols) THEN [err |-> "", names |-> names, types |-> types, dtypes |-> dtypes]
    ELSE LET dtype == cols[k].dtype
             names2 == Append(names, cols[k].name)
             fail(e) == [err |-> e, names |-> names2, types |-> types, dtypes |-> dtypes]
         IN IF dtype.kind \in ScalarKinds THEN
                DeriveFrom(cols, k + 1, names2, Append(types, <<TypeCode(dtype.kind)>>),
                           Append(dtypes, TypeConv(dtype.kind)), <<TypeCode(dtype.kind)>>, TRUE)
            ELSE IF HasTypeAttr(dtype) THEN
                IF dtype.kind = "S" THEN
                    LET t == IntToChars(dtype.itemsize) \o <<"s">>
                    IN DeriveFrom(cols, k + 1, names2, Append(types, t),
                                  Append(dtypes, "str_store"), t, TRUE)
                ELSE IF ~bound THEN fail("UnboundLocalError")
                ELSE DeriveFrom(cols, k + 1, names2, Append(types, type), dtypes, type, bound)
            ELSE fail("ValueError")

Derive(cols) == DeriveFrom(cols, 1, <<>>, <<>>, <<>>, <<>>, FALSE)

\* [d(0) for d in dtypes]
ZeroArgs(dtypes, p3) == [k \in 1..Len(dtypes) |-> Coerce(dtypes[k], PyInt(0), p3).val]

\* (mutation of ExtendFile: the file is sized to p bytes, no sentinel byte)
ExtendFileExact(bytes, p) ==
    IF p >= Len(bytes) THEN bytes \o Zeros(p - Len(bytes)) ELSE bytes

\* f.seek(p); f.write(b'\0') on a plain file: the gap up to p reads as zeros
ExtendFile(bytes, p) ==
    IF p >= Len(bytes) THEN bytes \o Zeros(p - Len(bytes)) \o <<0>>
    ELSE [bytes EXCEPT ![p + 1] = 0]

(***************************************************************************)
(* State.                                                                  *)
(***************************************************************************)
VARIABLES
    py3,        \* the interpreter is Python 3.7 or later (else Python 2)
    dirExists,  \* the store directory exists
    rawformat,  \* the file __rawformat__: the pickled descriptor
    store,      \* the file __store___: the data bytes
    h,          \* the RawStore object in use
    scan,       \* the generator returned by the last getColByIdx
    its,        \* the RawStoreIter objects obtained from the store
    grow,       \* the appendBlankRows call in progress, when run line by line
    res         \* the last call: its arguments and its outcome

vars == <<py3, dirExists, rawformat, store, h, scan, its, grow, res>>

NoDescriptor == [rowbytes |-> 0, pack_format |-> <<>>, colnames |-> <<>>, dtypes |-> <<>>, N |-> 0]

NoHandle == [live |-> FALSE, mode |-> READONLY, f |-> "None", pos |-> 0, opts |-> NoDescriptor]

NoScan == [live |-> FALSE, started |-> FALSE, done |-> FALSE, end |-> "", column |-> 0,
           pack_format |-> <<>>, nbytes |-> 0, offset |-> 0, count |-> 0]

NoRes == [op |-> "", idx |-> 0, row |-> <<>>, cols |-> <<>>, n |-> PyNone,
          err |-> "", val |-> <<>>, named |-> {}]

\* no appendBlankRows call is in progress
NoGrow == [pc |-> "idle", M |-> 0, pending |-> FALSE, opts |-> NoDescriptor]

Res(op, idx, row, err, val) == [NoRes EXCEPT !.op = op, !.idx = idx, !.row = row, !.err = err, !.val = val]

Init ==
    /\ py3 \in BOOLEAN
    /\ dirExists = FALSE
    /\ rawformat = [exists |-> FALSE, opts |-> NoDescriptor]
    /\ store = [exists |-> FALSE, bytes |-> <<>>]
    /\ h = NoHandle
    /\ scan = NoScan
    /\ its = <<>>
    /\ grow = NoGrow
    /\ res = NoRes

(***************************************************************************)
(* RawStore.__init__ and _openfile.                                        *)
(***************************************************************************)
\* _openfile: the state of self.f afterwards, or the exception.  APPEND
\* falls through to the final else like WRITE; READONCE opens the file into
\* self.f and then overwrites self.f with self._f, which is None; mmap
\* refuses an empty file.
openfile(mode, file) ==
    IF ~file.exists THEN [err |-> "IOError", f |-> "None"]
    ELSE IF mode = READONCE THEN [err |-> "", f |-> "None"]
    ELSE IF Len(file.bytes) = 0 THEN [err |-> "ValueError", f |-> "None"]
    ELSE [err |-> "", f |-> "mmap"]

\* (mutation of ReadOnlyMap: every mapping is writable)
ReadOnlyMapNever(hd) == FALSE

\* mmap.ACCESS_READ for READONLY, mmap.ACCESS_WRITE otherwise
ReadOnlyMap(hd) == hd.mode = READONLY

\* the descriptor file as open(..., 'wb') leaves it before pickle.dump
\* writes: there, and empty
Truncated(meta) == meta.exists /\ meta.opts = NoDescriptor

\* RawStore(directory, mode): the new object, or the exception; pickle.load
\* of an empty descriptor file raises EOFError
RawStoreResult(mode, dir, meta, file) ==
    IF ~dir \/ ~meta.exists THEN [err |-> "IOError", h |-> NoHandle]
    ELSE IF Truncated(meta) THEN [err |-> "EOFError", h |-> NoHandle]
    ELSE LET o == openfile(mode, file)
         IN IF o.err # "" THEN [err |-> o.err, h |-> NoHandle]
            ELSE [err |-> "", h |-> [live |-> TRUE, mode |-> mode, f |-> o.f, pos |-> 0, opts |-> meta.opts]]

\* RawStore(directory, mode); a failed construction leaves the caller with
\* the object it had
RawStore(mode) ==
    LET r == RawStoreResult(mode, dirExists, rawformat, store)
    IN /\ h.f # "mmap"
       /\ h' = IF r.err = "" THEN r.h ELSE h
       /\ scan' = IF r.err = "" THEN NoScan ELSE scan
       /\ its' = IF r.err = "" THEN <<>> ELSE its
       /\ res' = Res("RawStore", mode, <<>>, r.err, <<>>)
       /\ UNCHANGED <<py3, dirExists, rawformat, store, grow>>

(***************************************************************************)
(* MakeStore.                                                              *)
(***************************************************************************)
\* MakeStore(cols, N, directory) with checkDirectoryExists left at True.
\* N is a Python value (None or an int).  The result is the error, and the
\* directory, the two files and the returned object as they are left.
MakeStoreResult(cols, N, dir, meta, file, p3) ==
    LET keep(e, d) == [err |-> e, dir |-> d, meta |-> meta, file |-> file, h |-> NoHandle]
        d == Derive(cols)
        pack_format == Flatten(d.types)
        packed == Pack(pack_format, ZeroArgs(d.dtypes, p3), p3)
        rowbytes == Len(packed.bytes)
        opts == [rowbytes |-> rowbytes, pack_format |-> pack_format, colnames |-> d.names,
                 dtypes |-> d.dtypes, N |-> N.i]
        meta2 == [exists |-> TRUE, opts |-> opts]
    IN IF dir THEN keep("IOError", TRUE)
       ELSE IF ~Truthy(N) THEN keep("ValueError", TRUE)
       ELSE IF d.err # "" THEN keep(d.err, TRUE)
       ELSE IF ~packed.ok THEN keep("struct.error", TRUE)
       ELSE IF rowbytes * N.i < 0 THEN
           \* f.seek of a negative offset: the descriptor is written, the
           \* data file created empty
           [err |-> "IOError", dir |-> TRUE, meta |-> meta2,
            file |-> [exists |-> TRUE, bytes |-> <<>>], h |-> NoHandle]
       ELSE LET file2 == [exists |-> TRUE, bytes |-> ExtendFile(<<>>, rowbytes * N.i)]
                r == RawStoreResult(WRITE, TRUE, meta2, file2)
            IN [err |-> r.err, dir |-> TRUE, meta |-> meta2, file |-> file2, h |-> r.h]

MakeStore(cols, N) ==
    LET r == MakeStoreResult(cols, N, dirExists, rawformat, store, py3)
    IN /\ dirExists' = r.dir
       /\ rawformat' = r.meta
       /\ store' = r.file
       /\ h' = IF r.err = "" THEN r.h ELSE h
       /\ res' = [NoRes EXCEPT !.op = "MakeStore", !.cols = cols, !.n = N, !.err = r.err]
       /\ UNCHANGED <<py3, scan, its, grow>>

(***************************************************************************)
(* close, get, putRow.                                                     *)
(***************************************************************************)
\* close(): self.f.close() then self._f.close(); closing twice is harmless;
\* in READONCE mode self.f is None and has no close
closeResult(hd) ==
    IF hd.f = "None" THEN [err |-> "AttributeError", h |-> hd]
    ELSE [err |-> "", h |-> [hd EXCEPT !.f = "closed"]]

close ==
    LET r == closeResult(h)
    IN /\ h.live
       /\ h' = r.h
       /\ res' = Res("close", 0, <<>>, r.err, <<>>)
       /\ UNCHANGED <<py3, dirExists, rawformat, store, scan, its, grow>>

HasStringField(pack_format) == \E k \in 1..Len(pack_format) : pack_format[k] = "s"

StripNul(chars) == SelectSeq(chars, LAMBDA c : c # 0)

\* str(x).replace("\x00", "") if isinstance(x, (str, bytes)) else x
GetField(x) == IF x.t \in {"str", "bytes"} THEN PyStr(StripNul(Str(x))) ELSE x

\* get(idx) on object hd over the mapped bytes: the exception or the row,
\* and where the cursor of self.f is left
getResult(hd, bytes, p3, idx) ==
    LET o == hd.opts
        offset == idx * o.rowbytes
        bs == Slice(bytes, offset, o.rowbytes)
        u == Unpack(o.pack_format, bs, p3)
    IN IF idx >= o.N \/ idx < 0 THEN [err |-> "IndexError", val |-> <<>>, pos |-> hd.pos]
       ELSE IF hd.f = "None" THEN [err |-> "AttributeError", val |-> <<>>, pos |-> hd.pos]
       ELSE IF hd.f = "closed" \/ offset > Len(bytes) THEN [err |-> "IndexError", val |-> <<>>, pos |-> hd.pos]
       ELSE IF ~u.ok THEN [err |-> "struct.error", val |-> <<>>, pos |-> offset + Len(bs)]
       ELSE [err |-> "",
             val |-> IF HasStringField(o.pack_format)
                     THEN [k \in 1..Len(u.vals) |-> GetField(u.vals[k])]
                     ELSE u.vals,
             pos |-> offset + Len(bs)]

get(idx) ==
    /\ h.live
    /\ \E r \in {getResult(h, store.bytes, py3, idx)} :
       /\ h' = [h EXCEPT !.pos = r.pos]
       /\ res' = Res("get", idx, <<>>, r.err, r.val)
       /\ UNCHANGED <<py3, dirExists, rawformat, store, scan, its, grow>>

\* the columns (1-based) whose value dtype(v) rejects, with any exception
FailingColumns(dtypes, row, p3) ==
    {k \in 1..Len(dtypes) : k <= Len(row) /\ Coerce(dtypes[k], row[k], p3).err # ""}

\* bytes written at 0-based position pos
WriteAt(bytes, pos, new) ==
    [k \in 1..Len(bytes) |-> IF k > pos /\ k <= pos + Len(new) THEN new[k - pos] ELSE bytes[k]]

\* putRow(idx, row): the exception (with the column names its message lists),
\* the cursor and the mapped bytes as they are left
putRowResult(hd, bytes, p3, idx, row) ==
    LET o == hd.opts
        failing == FailingColumns(o.dtypes, row, p3)
        first == CHOOSE k \in failing : \A j \in failing : k <= j
        offset == idx * o.rowbytes
        packed == Pack(o.pack_format, [k \in 1..Len(row) |-> convert_string(row[k], p3)], p3)
        out(e, named, pos, bs) == [err |-> e, named |-> named, pos |-> pos, bytes |-> bs]
    IN IF idx >= o.N THEN out("IndexError", {}, hd.pos, bytes)
       ELSE IF Len(row) # Len(o.dtypes) THEN out("ValueError", {}, hd.pos, bytes)
       ELSE IF failing # {} THEN
           \* the list comprehension stops at the first failing column; only
           \* a TypeError is caught and turned into the message that lists
           \* every failing column
           IF Coerce(o.dtypes[first], row[first], p3).err = "TypeError"
           THEN out("TypeError", {o.colnames[k] : k \in failing}, hd.pos, bytes)
           ELSE out("ValueError", {}, hd.pos, bytes)
       ELSE IF hd.f = "None" THEN out("AttributeError", {}, hd.pos, bytes)
       ELSE IF hd.f = "closed" \/ offset < 0 \/ offset > Len(bytes) THEN out("ValueError", {}, hd.pos, bytes)
       ELSE IF ~packed.ok THEN out("struct.error", {}, offset, bytes)
       ELSE IF ReadOnlyMap(hd) THEN out("TypeError", {}, offset, bytes)
       ELSE IF offset + Len(packed.bytes) > Len(bytes) THEN out("ValueError", {}, offset, bytes)
       ELSE out("", {}, offset + Len(packed.bytes), WriteAt(bytes, offset, packed.bytes))

putRow(idx, row) ==
    /\ h.live
    /\ \E r \in {putRowResult(h, store.bytes, py3, idx, row)} :
       /\ h' = [h EXCEPT !.pos = r.pos]
       /\ store' = [store EXCEPT !.bytes = r.bytes]
       /\ res' = [Res("putRow", idx, row, r.err, <<>>) EXCEPT !.named = r.named]
       /\ UNCHANGED <<py3, dirExists, rawformat, scan, its, grow>>

(***************************************************************************)
(* appendBlankRows.                                                        *)
(***************************************************************************)
\* (mutation of GrowOffset: the rows already there are left out)
GrowOffsetWithoutN(o, M) == o.rowbytes * M

\* the offset appendBlankRows seeks to before writing the sentinel byte
GrowOffset(o, M) == o.rowbytes * (o.N + M)

\* (mutation of appendBlankRowsResult: the descriptor is not rewritten)
appendBlankRowsResultUnsaved(hd, meta, file, M) ==
    LET closed == closeResult(hd).h
        file2 == [file EXCEPT !.bytes = ExtendFile(file.bytes, GrowOffset(hd.opts, M))]
        o == openfile(hd.mode, file2)
        out(e, hd2, m, fl) == [err |-> e, h |-> hd2, meta |-> m, file |-> fl]
    IN IF hd.mode # APPEND THEN out("IOError", hd, meta, file)
       ELSE IF M < 1 THEN out("ValueError", closed, meta, file)
       ELSE out(o.err, [closed EXCEPT !.opts.N = hd.opts.N + M, !.f = o.f, !.pos = 0], meta, file2)

\* appendBlankRows(M): close, open the file, check M, close again, extend the
\* file, N += M, rewrite the descriptor with the new N, _openfile
appendBlankRowsResult(hd, meta, file, M) ==
    LET closed == closeResult(hd).h
        file2 == [file EXCEPT !.bytes = ExtendFile(file.bytes, GrowOffset(hd.opts, M))]
        N2 == hd.opts.N + M
        meta2 == [meta EXCEPT !.opts.N = N2]
        o == openfile(hd.mode, file2)
        out(e, hd2, m, fl) == [err |-> e, h |-> hd2, meta |-> m, file |-> fl]
    IN IF hd.mode # APPEND THEN out("IOError", hd, meta, file)
       ELSE IF M < 1 THEN out("ValueError", closed, meta, file)
       ELSE out(o.err, [closed EXCEPT !.opts.N = N2, !.f = o.f, !.pos = 0], meta2, file2)

appendBlankRows(M) ==
    LET r == appendBlankRowsResult(h, rawformat, store, M)
    IN /\ h.live
       /\ h.opts.N + M <= MaxRows
       /\ h' = r.h
       /\ rawformat' = r.meta
       /\ store' = r.file
       /\ res' = Res("appendBlankRows", M, <<>>, r.err, <<>>)
       /\ UNCHANGED <<py3, dirExists, scan, its, grow>>

(***************************************************************************)
(* appendBlankRows line by line: the states the files and the object go     *)
(* through inside one call, with the failures of the descriptor's read and  *)
(* rewrite, and the process stopping between two lines.                     *)
(***************************************************************************)
\* lines 89-95: the mode check, close(), open(fname, 'rb+'), the check of
\* M, close() again
GrowCall(M) ==
    /\ h.live /\ grow.pc = "idle"
    /\ h.opts.N + M <= MaxRows
    /\ IF h.mode # APPEND
       THEN /\ res' = Res("appendBlankRows", M, <<>>, "IOError", <<>>)
            /\ UNCHANGED <<h, grow>>
       ELSE IF M < 1
       THEN /\ h' = closeResult(h).h
            /\ res' = Res("appendBlankRows", M, <<>>, "ValueError", <<>>)
            /\ UNCHANGED grow
       ELSE /\ h' = closeResult(h).h
            /\ grow' = [NoGrow EXCEPT !.pc = "closed", !.M = M]
            /\ UNCHANGED res
    /\ UNCHANGED <<py3, dirExists, rawformat, store, scan, its>>

\* lines 97-99: _f.seek(rowbytes * (N + M)); _f.write(b'\0').  The byte
\* stays in the buffer of _f until _f is closed.
GrowWrite ==
    /\ grow.pc = "closed"
    /\ grow' = [grow EXCEPT !.pc = "written", !.pending = TRUE]
    /\ UNCHANGED <<py3, dirExists, rawformat, store, h, scan, its, res>>

\* line 100: self.N += M
GrowCount ==
    /\ grow.pc = "written"
    /\ h' = [h EXCEPT !.opts.N = h.opts.N + grow.M]
    /\ grow' = [grow EXCEPT !.pc = "counted"]
    /\ UNCHANGED <<py3, dirExists, rawformat, store, scan, its, res>>

\* (mutation of FlushedFile: the buffered byte never reaches the file)
FlushedFileLost(file, p) == file

\* the data file once the byte written at offset p has been flushed
FlushedFile(file, p) == [file EXCEPT !.bytes = ExtendFile(file.bytes, p)]

\* line 101: _f.close() flushes the byte written at rowbytes * (N + M);
\* self.N counts the M new rows since line 100
GrowFlush ==
    /\ grow.pc = "counted"
    /\ store' = FlushedFile(store, h.opts.rowbytes * h.opts.N)
    /\ grow' = [grow EXCEPT !.pc = "flushed", !.pending = FALSE]
    /\ UNCHANGED <<py3, dirExists, rawformat, h, scan, its, res>>

\* an exception leaves appendBlankRows: nothing after the raising line runs
GrowRaise(e) ==
    /\ grow' = NoGrow
    /\ res' = Res("appendBlankRows", grow.M, <<>>, e, <<>>)

\* lines 104-107: the descriptor is opened and unpickled, opts['N'] = self.N;
\* the open or the load may fail
GrowLoad(fails) ==
    /\ grow.pc = "flushed"
    /\ IF fails \/ ~rawformat.exists THEN GrowRaise("IOError")
       ELSE IF Truncated(rawformat) THEN GrowRaise("EOFError")
       ELSE /\ grow' = [grow EXCEPT !.pc = "loaded", !.opts = [rawformat.opts EXCEPT !.N = h.opts.N]]
            /\ UNCHANGED res
    /\ UNCHANGED <<py3, dirExists, rawformat, store, h, scan, its>>

\* line 108: open(..., 'wb') empties the descriptor file; an open that
\* fails leaves it as it was
GrowTruncate(fails) ==
    /\ grow.pc = "loaded"
    /\ IF fails
       THEN GrowRaise("IOError") /\ UNCHANGED rawformat
       ELSE /\ rawformat' = [exists |-> TRUE, opts |-> NoDescriptor]
            /\ grow' = [grow EXCEPT !.pc = "truncated"]
            /\ UNCHANGED res
    /\ UNCHANGED <<py3, dirExists, store, h, scan, its>>

\* line 109: pickle.dump(opts, rawformat) and the end of the with block; a
\* write that fails leaves the file empty
GrowDump(fails) ==
    /\ grow.pc = "truncated"
    /\ IF fails
       THEN GrowRaise("IOError") /\ UNCHANGED rawformat
       ELSE /\ rawformat' = [exists |-> TRUE, opts |-> grow.opts]
            /\ grow' = [grow EXCEPT !.pc = "dumped"]
            /\ UNCHANGED res
    /\ UNCHANGED <<py3, dirExists, store, h, scan, its>>

\* line 110: self._openfile(), and the call returns
GrowReopen ==
    /\ grow.pc = "dumped"
    /\ \E o \in {openfile(h.mode, store)} :
         /\ h' = [h EXCEPT !.f = o.f, !.pos = 0]
         /\ res' = Res("appendBlankRows", grow.M, <<>>, o.err, <<>>)
    /\ grow' = NoGrow
    /\ UNCHANGED <<py3, dirExists, rawformat, store, scan, its>>

\* the process stops inside the call: the object is gone, the files stay as
\* they are; a byte still in the buffer of _f is flushed when the
\* interpreter closes the file on its way out, lost when it is killed
GrowStop(flushed) ==
    /\ grow.pc # "idle"
    /\ store' = IF grow.pending /\ flushed
                THEN FlushedFile(store, h.opts.rowbytes * (h.opts.N + (IF grow.pc = "written" THEN grow.M ELSE 0)))
                ELSE store
    /\ h' = NoHandle
    /\ scan' = NoScan
    /\ grow' = NoGrow
    /\ res' = Res("stop", 0, <<>>, "", <<>>)
    /\ UNCHANGED <<py3, dirExists, rawformat, its>>

(***************************************************************************)
(* getColByIdx: a generator.  Calling it runs no code; each next() runs    *)
(* the body up to the next yield.                                          *)
(***************************************************************************)
getColByIdx(column) ==
    /\ h.live
    /\ scan' = [NoScan EXCEPT !.live = TRUE, !.column = column]
    /\ res' = Res("getColByIdx", column, <<>>, "", <<>>)
    /\ UNCHANGED <<py3, dirExists, rawformat, store, h, its, grow>>

\* "raise StopIteration" inside the generator body: the normal end of the
\* iteration on Python 2, a RuntimeError since Python 3.7 (PEP 479)
RaiseStop(p3) == IF p3 THEN "RuntimeError" ELSE "StopIteration"

\* the generator finished (normally or with an exception) after leaving the
\* cursor at pos
ScanEnd(sc, e, pos) == [err |-> e, val |-> <<>>, pos |-> pos, scan |-> [sc EXCEPT !.done = TRUE, !.end = e]]

\* one pass of the while loop from the read to the yield, the cursor being
\* at pos
ScanRead(sc, hd, bytes, p3, pos) ==
    LET bs == Slice(bytes, pos, sc.nbytes)
        u == Unpack(sc.pack_format, bs, p3)
        after == pos + Len(bs)
    IN IF hd.f = "None" THEN ScanEnd(sc, "AttributeError", pos)
       ELSE IF hd.f = "closed" THEN ScanEnd(sc, "ValueError", pos)
       ELSE IF ~p3 /\ bs = <<>> THEN ScanEnd(sc, RaiseStop(p3), after)
       ELSE IF u.ok THEN [err |-> "", val |-> u.vals, pos |-> after,
                          scan |-> [sc EXCEPT !.count = sc.count + 1]]
       ELSE IF Len(bs) # sc.nbytes THEN ScanEnd(sc, RaiseStop(p3), after)
       ELSE ScanEnd(sc, "struct.error", after)

\* the first next(): the code before the loop, then the loop up to the
\* first yield.  pack_format is sliced and indexed by character.
ScanStart(sc, hd, bytes, p3) ==
    LET o == hd.opts
        skip_format == Take(o.pack_format, sc.column)
        skipped == Pack(skip_format, ZeroArgs(Take(o.dtypes, sc.column), p3), p3)
        offset == Len(skipped.bytes)
        pack_format == <<o.pack_format[sc.column + 1]>>
        one == Pack(pack_format, ZeroArgs(<<o.dtypes[sc.column + 1]>>, p3), p3)
        sc2 == [sc EXCEPT !.started = TRUE, !.pack_format = pack_format,
                          !.nbytes = Len(one.bytes), !.offset = offset + o.rowbytes]
        begun == [sc EXCEPT !.started = TRUE]
    IN IF ~skipped.ok THEN ScanEnd(begun, "struct.error", hd.pos)
       ELSE IF sc.column >= Len(o.pack_format) \/ sc.column >= Len(o.dtypes)
            THEN ScanEnd(begun, "IndexError", hd.pos)
       ELSE IF ~one.ok THEN ScanEnd(begun, "struct.error", hd.pos)
       ELSE IF hd.f = "None" THEN ScanEnd(begun, "AttributeError", hd.pos)
       ELSE IF hd.f = "closed" \/ offset > Len(bytes) THEN ScanEnd(begun, "ValueError", hd.pos)
       ELSE ScanRead(sc2, hd, bytes, p3, offset)

\* (mutation of ScanResume: no seek after the yield, the next read is taken
\* from where the cursor stands, one row less a field further on)
ScanResumeFromCursor(sc, hd, bytes, p3) ==
    IF hd.f = "None" THEN ScanEnd(sc, "AttributeError", hd.pos)
    ELSE IF hd.f = "closed" \/ sc.offset > Len(bytes) THEN ScanEnd(sc, RaiseStop(p3), hd.pos)
    ELSE ScanRead([sc EXCEPT !.offset = sc.offset + hd.opts.rowbytes], hd, bytes, p3,
                  hd.pos + hd.opts.rowbytes - sc.nbytes)

\* a later next(): the seek after the yield, then the loop up to the next
\* yield; a seek that fails ends the iteration
ScanResume(sc, hd, bytes, p3) ==
    IF hd.f = "None" THEN ScanEnd(sc, "AttributeError", hd.pos)
    ELSE IF hd.f = "closed" \/ sc.offset > Len(bytes) THEN ScanEnd(sc, RaiseStop(p3), hd.pos)
    ELSE ScanRead([sc EXCEPT !.offset = sc.offset + hd.opts.rowbytes], hd, bytes, p3, sc.offset)

\* next() on the generator; one that has finished raises StopIteration
nextResult(sc, hd, bytes, p3) ==
    IF sc.done THEN [err |-> "StopIteration", val |-> <<>>, pos |-> hd.pos, scan |-> sc]
    ELSE IF ~sc.started THEN ScanStart(sc, hd, bytes, p3)
    ELSE ScanResume(sc, hd, bytes, p3)

next ==
    LET r == nextResult(scan, h, store.bytes, py3)
    IN /\ scan.live
       /\ scan' = r.scan
       /\ h' = [h EXCEPT !.pos = r.pos]
       /\ res' = Res("next", scan.count, <<>>, r.err, r.val)
       /\ UNCHANGED <<py3, dirExists, rawformat, store, its, grow>>

(***************************************************************************)
(* write, and iteration over the rows.                                     *)
(***************************************************************************)
\* write(row): struct.pack of the row as it is given, then self.f.write at
\* the cursor of the mapping; the exception, the cursor and the mapped bytes
writeResult(hd, bytes, p3, row) ==
    LET packed == Pack(hd.opts.pack_format, row, p3)
        out(e, pos, bs) == [err |-> e, pos |-> pos, bytes |-> bs]
    IN IF ~packed.ok THEN out("struct.error", hd.pos, bytes)
       ELSE IF hd.f = "None" THEN out("AttributeError", hd.pos, bytes)
       ELSE IF hd.f = "closed" THEN out("ValueError", hd.pos, bytes)
       ELSE IF ReadOnlyMap(hd) THEN out("TypeError", hd.pos, bytes)
       ELSE IF hd.pos + Len(packed.bytes) > Len(bytes) THEN out("ValueError", hd.pos, bytes)
       ELSE out("", hd.pos + Len(packed.bytes), WriteAt(bytes, hd.pos, packed.bytes))

write(row) ==
    /\ h.live
    /\ \E r \in {writeResult(h, store.bytes, py3, row)} :
       /\ h' = [h EXCEPT !.pos = r.pos]
       /\ store' = [store EXCEPT !.bytes = r.bytes]
       /\ res' = Res("write", 0, row, r.err, <<>>)
    /\ UNCHANGED <<py3, dirExists, rawformat, scan, its, grow>>

\* RawStoreIter(raw): self.i = -1
RawStoreIter == [i |-> -1]

\* iter(store): RawStore.__iter__ returns a RawStoreIter, which has a next
\* method and no __next__: Python 3 refuses it as an iterator
iter ==
    /\ h.live
    /\ Len(its) < MaxIters
    /\ IF py3
       THEN /\ res' = Res("iter", 0, <<>>, "TypeError", <<>>)
            /\ UNCHANGED its
       ELSE /\ its' = Append(its, RawStoreIter)
            /\ res' = Res("iter", Len(its) + 1, <<>>, "", <<>>)
    /\ UNCHANGED <<py3, dirExists, rawformat, store, h, scan, grow>>

\* RawStoreIter.next: self.i += 1, StopIteration once self.i >= raw.N, else
\* raw.get(self.i)
iternextResult(it, hd, bytes, p3) ==
    LET i == it.i + 1
        g == getResult(hd, bytes, p3, i)
    IN IF i >= hd.opts.N
       THEN [err |-> "StopIteration", val |-> <<>>, pos |-> hd.pos, it |-> [it EXCEPT !.i = i]]
       ELSE [err |-> g.err, val |-> g.val, pos |-> g.pos, it |-> [it EXCEPT !.i = i]]

iternext(k) ==
    /\ h.live
    /\ k \in 1..Len(its)
    /\ its[k].i < h.opts.N + MaxPast - 1
    /\ \E r \in {iternextResult(its[k], h, store.bytes, py3)} :
       /\ its' = [its EXCEPT ![k] = r.it]
       /\ h' = [h EXCEPT !.pos = r.pos]
       /\ res' = Res("iter.next", r.it.i, <<>>, r.err, r.val)
    /\ UNCHANGED <<py3, dirExists, rawformat, store, scan, grow>>

(***************************************************************************)
(* Inputs and specifications.                                              *)
(***************************************************************************)
Col(name, dtype) == [name |-> name, dtype |-> dtype]

\* the column lists stores are made from
ColLists ==
    { <<Col("a", NumpyType("int32")), Col("b", NumpyString(4))>>,
      <<Col("a", NumpyType("uint8")), Col("b", NumpyType("int32"))>>,
      <<Col("a", NumpyType("uint8"))>>,
      <<Col("a", NumpyType("float32")), Col("b", NumpyType("bool"))>>,
      <<Col("a", NumpyType("int32")), Col("b", NumpyUnicode(4))>>,
      <<Col("a", NumpyType("object"))>> }

NInputs == {PyNone} \cup {PyInt(n) : n \in -1..MaxN}

\* the values a caller offers for the first column, by its conversion: 7,
\* "7", "x" and None for int; "hi" for str_store; 3 and None for float; True
\* for bool
Candidates(dtype) ==
    CASE dtype = "int" -> {PyInt(7), PyStr(<<55>>), PyStr(<<120>>), PyNone}
      [] dtype = "str_store" -> {PyStr(<<104, 105>>)}
      [] dtype = "float" -> {PyInt(3), PyNone}
      [] dtype = "bool" -> {PyBool(TRUE)}

\* the values offered for a later column: the same, less the digit string
LaterCandidates(dtype) == Candidates(dtype) \ {PyStr(<<55>>)}

RECURSIVE LaterRows(_)
LaterRows(dtypes) ==
    IF dtypes = <<>> THEN {<<>>}
    ELSE {<<v>> \o r : v \in LaterCandidates(Head(dtypes)), r \in LaterRows(Tail(dtypes))}

RowsOver(dtypes) ==
    IF dtypes = <<>> THEN {<<>>}
    ELSE {<<v>> \o r : v \in Candidates(Head(dtypes)), r \in LaterRows(Tail(dtypes))}

\* the row a careful caller writes: 7 for int, "hi" for str_store, 3 for
\* float, True for bool
PlainValue(dtype) ==
    CASE dtype = "int" -> PyInt(7)
      [] dtype = "str_store" -> PyStr(<<104, 105>>)
      [] dtype = "float" -> PyInt(3)
      [] dtype = "bool" -> PyBool(TRUE)

PlainRow(dtypes) == [k \in 1..Len(dtypes) |-> PlainValue(dtypes[k])]

\* rows of the right arity, and one row with an entry too many
RowInputs(hd) == RowsOver(hd.opts.dtypes) \cup {Append(PlainRow(hd.opts.dtypes), PyInt(7))}

IdxInputs(hd) == -1..hd.opts.N

Modes == {READONLY, WRITE, APPEND, READONCE}

\* random access: creation, reopening in every mode, get and putRow with
\* every offered row
MakeFresh == ~dirExists /\ \E cols \in ColLists, N \in NInputs : MakeStore(cols, N)

MakeAgain == dirExists /\ MakeStore(<<Col("a", NumpyType("int32"))>>, PyInt(1))

Open == \E mode \in Modes : RawStore(mode)

Gets == \E idx \in IdxInputs(h) : get(idx)

Puts == \E idx \in IdxInputs(h), row \in RowInputs(h) : putRow(idx, row)

Next ==
    \/ MakeFresh
    \/ MakeAgain
    \/ Open
    \/ close
    \/ Gets
    \/ Puts

Spec == Init /\ [][Next]_vars

\* growth: stores reopened read-only, read-once or in append mode, plain rows,
\* appendBlankRows
GrowLists ==
    { <<Col("a", NumpyType("int32")), Col("b", NumpyString(4))>>,
      <<Col("a", NumpyType("uint8"))>> }

MakeGrow == ~dirExists /\ \E cols \in GrowLists, N \in {PyInt(n) : n \in -1..MaxGrowN} : MakeStore(cols, N)

OpenGrow == \E mode \in {READONLY, APPEND, READONCE} : RawStore(mode)

PutsPlain == \E idx \in IdxInputs(h) : putRow(idx, PlainRow(h.opts.dtypes))

Grows == \E M \in 0..MaxM : appendBlankRows(M)

NextGrow ==
    \/ MakeGrow
    \/ OpenGrow
    \/ close
    \/ PutsPlain
    \/ Grows

SpecGrow == Init /\ [][NextGrow]_vars

\* column scans over stores holding plain rows
MakeScan == ~dirExists /\ \E cols \in ColLists, N \in {PyInt(n) : n \in 1..MaxN} : MakeStore(cols, N)

Scans == \E column \in 0..(Len(h.opts.colnames) - 1) : getColByIdx(column)

NextScan ==
    \/ MakeScan
    \/ PutsPlain
    \/ Gets
    \/ Scans
    \/ next

SpecScan == Init /\ [][NextScan]_vars

\* creation alone, over every list of one or two columns of every type
AllTypes == {NumpyType(k) : k \in ScalarKinds} \cup {NumpyString(4), NumpyUnicode(4), NumpyType("object")}

AllLists ==
    {<<Col("a", t)>> : t \in AllTypes} \cup {<<Col("a", t), Col("b", u)>> : t \in AllTypes, u \in AllTypes}

MakeAny == ~dirExists /\ \E cols \in AllLists, N \in NInputs : MakeStore(cols, N)

NextMake ==
    \/ MakeAny
    \/ MakeAgain

SpecMake == Init /\ [][NextMake]_vars

\* growth line by line: between two calls the store is reopened, closed and
\* written to; inside a call only the call's own lines run, or the process
\* stops
Idle == grow.pc = "idle"

StepOpen == Idle /\ \E mode \in {READONLY, APPEND} : RawStore(mode)

StepClose == Idle /\ close

StepPut == Idle /\ PutsPlain

GrowCalls == \E M \in 0..MaxM : GrowCall(M)

GrowLoads == \E fails \in BOOLEAN : GrowLoad(fails)

GrowTruncates == \E fails \in BOOLEAN : GrowTruncate(fails)

GrowDumps == \E fails \in BOOLEAN : GrowDump(fails)

GrowStops == \E flushed \in BOOLEAN : GrowStop(flushed)

NextSteps ==
    \/ MakeGrow
    \/ StepOpen
    \/ StepClose
    \/ StepPut
    \/ GrowCalls
    \/ GrowWrite
    \/ GrowCount
    \/ GrowFlush
    \/ GrowLoads
    \/ GrowTruncates
    \/ GrowDumps
    \/ GrowReopen
    \/ GrowStops

SpecSteps == Init /\ [][NextSteps]_vars

\* sequential use of one handle: write, get, putRow, column scans and close
\* on the object MakeStore returns
SeqLists ==
    { <<Col("a", NumpyType("int32")), Col("b", NumpyString(4))>>,
      <<Col("a", NumpyType("uint8")), Col("b", NumpyType("int32"))>>,
      <<Col("a", NumpyType("uint8"))>> }

MakeSeq == ~dirExists /\ \E cols \in SeqLists, N \in {PyInt(n) : n \in 1..MaxN} : MakeStore(cols, N)

\* the plain row with its text given as bytes
BytesRow(dtypes) ==
    [k \in 1..Len(dtypes) |-> IF dtypes[k] = "str_store" THEN PyBytes(<<104, 105>>) ELSE PlainValue(dtypes[k])]

\* the rows given to write: the plain row and, where bytes are not str, the
\* plain row with its text as bytes
WriteRows(hd, p3) == {PlainRow(hd.opts.dtypes)} \cup (IF p3 THEN {BytesRow(hd.opts.dtypes)} ELSE {})

Writes == \E row \in WriteRows(h, py3) : write(row)

NextSeq ==
    \/ MakeSeq
    \/ close
    \/ Gets
    \/ PutsPlain
    \/ Writes
    \/ Scans
    \/ next

SpecSeq == Init /\ [][NextSeq]_vars

\* iteration over the rows of a store holding plain rows
IterNexts == \E k \in 1..MaxIters : iternext(k)

NextIter ==
    \/ MakeScan
    \/ PutsPlain
    \/ iter
    \/ IterNexts

SpecIter == Init /\ [][NextIter]_vars

(***************************************************************************)
(* Claims.                                                                 *)
(***************************************************************************)
InRange(hd, idx) == idx >= 0 /\ idx < hd.opts.N

Writable(hd) == hd.live /\ hd.f = "mmap" /\ hd.mode \in {WRITE, APPEND}

\* the object is a handle on a store that MakeStore has made: MakeStore
\* returns no store for N = None or 0, and for N < 0 it fails leaving an
\* empty data file behind
MadeByMakeStore == h.live /\ h.opts.N >= 1

\* the value get is expected to return for v written to a column: v after
\* the column's conversion, a byte string being read as text
ExpectedField(dtype, v, p3) ==
    LET c == Coerce(dtype, v, p3).val
    IN IF c.t \in {"str", "bytes"} THEN PyStr(c.s) ELSE c

ExpectedRow(dtypes, row, p3) == [k \in 1..Len(dtypes) |-> ExpectedField(dtypes[k], row[k], p3)]

ValidRow(hd, row, p3) == Len(row) = Len(hd.opts.dtypes) /\ FailingColumns(hd.opts.dtypes, row, p3) = {}

\* C1 (as claimed): on a writable handle, putRow(i, r) with i in range and
\* every value of r coercible succeeds, get(i) then returns r after
\* coercion, and a step that is no successful putRow leaves every get(i) as
\* it was.
C1_RoundTrip ==
    [][ /\ (Writable(h) /\ res'.op = "putRow" /\ InRange(h, res'.idx) /\ ValidRow(h, res'.row, py3))
            => /\ res'.err = ""
               /\ getResult(h', store'.bytes, py3, res'.idx).err = ""
               /\ getResult(h', store'.bytes, py3, res'.idx).val = ExpectedRow(h.opts.dtypes, res'.row, py3)
        /\ (Writable(h) /\ Writable(h') /\ ~(res'.op = "putRow" /\ res'.err = ""))
            => \A i \in 0..(h.opts.N - 1) :
                   getResult(h', store'.bytes, py3, i).val = getResult(h, store.bytes, py3, i).val
      ]_vars

\* C2 (as claimed): get(idx) and putRow(idx, row) with idx < 0 or
\* idx >= row_count fail with IndexError, and no byte of the data file
\* changes.
C2_OutOfRangeIsIndexError ==
    [][ (h.live /\ res'.op \in {"get", "putRow"} /\ ~InRange(h, res'.idx))
            => (res'.err = "IndexError" /\ store' = store)
      ]_vars

\* C3 (as claimed): on a store made by MakeStore the data file is exactly
\* row_count * row_width bytes long.
C3_LengthIsRowsTimesWidth ==
    MadeByMakeStore => Len(store.bytes) = h.opts.N * h.opts.rowbytes

\* C3 (amended): on a store made by MakeStore, after any putRow and
\* appendBlankRows calls, the data file is row_count * row_width + 1 bytes
\* long: the rows, then the one sentinel byte that creation and growth write
\* at offset row_count * row_width.
C3_LengthIsRowsPlusSentinel ==
    MadeByMakeStore => Len(store.bytes) = h.opts.N * h.opts.rowbytes + 1

\* a store that has been written to and then grown
C3_Witness ==
    /\ MadeByMakeStore
    /\ res.op = "appendBlankRows" /\ res.err = "" /\ res.idx >= 1
    /\ \E k \in 1..Len(store.bytes) : store.bytes[k] # 0
    /\ Len(store.bytes) = h.opts.N * h.opts.rowbytes + 1

\* C4: on an append-mode handle appendBlankRows(M) with M >= 1 succeeds,
\* adds exactly M to row_count, leaves the bytes of rows 0..old-1 as they
\* were, and get(k) succeeds for every new row k.
C4_Growth ==
    [][ (h.live /\ h.mode = APPEND /\ res'.op = "appendBlankRows" /\ res'.idx >= 1)
            => /\ res'.err = ""
               /\ h'.opts.N = h.opts.N + res'.idx
               /\ SubSeq(store'.bytes, 1, h.opts.N * h.opts.rowbytes)
                    = SubSeq(store.bytes, 1, h.opts.N * h.opts.rowbytes)
               /\ \A k \in h.opts.N..(h.opts.N + res'.idx - 1) :
                      getResult(h', store'.bytes, py3, k).err = ""
      ]_vars

\* an append-mode handle that has grown a 3-row store holding a written row
\* by 2 rows, and on which the last new row reads back
C4_Witness ==
    /\ h.live /\ h.mode = APPEND
    /\ res.op = "appendBlankRows" /\ res.err = "" /\ res.idx = 2
    /\ h.opts.N = 5
    /\ \E k \in 1..((h.opts.N - res.idx) * h.opts.rowbytes) : store.bytes[k] # 0
    /\ getResult(h, store.bytes, py3, h.opts.N - 1).err = ""

\* C5 (as claimed): a column scan yields exactly row_count values and then
\* ends normally.
C5_ScanLength ==
    scan.live => /\ scan.count <= h.opts.N
                 /\ scan.done => (scan.count = h.opts.N /\ scan.end = "StopIteration")

\* C6 (as claimed): the k-th value of the scan of column c is field c of
\* get(k), for every k < row_count.
C6_ScanValues ==
    /\ (scan.live /\ res.op = "next" /\ res.err = "" /\ res.idx < h.opts.N)
         => LET g == getResult(h, store.bytes, py3, res.idx)
            IN g.err = "" /\ res.val[1] = g.val[scan.column + 1]
    /\ (scan.live /\ scan.done) => scan.count >= h.opts.N

\* the byte width the descriptor documents for a logical type
DeclaredWidth(dtype) ==
    CASE dtype.kind \in {"int32", "uint32", "float32"} -> 4
      [] dtype.kind \in {"int64", "uint64", "float64"} -> 8
      [] dtype.kind = "uint16" -> 2
      [] dtype.kind \in {"uint8", "bool"} -> 1
      [] dtype.kind = "S" -> dtype.itemsize

RECURSIVE SumWidths(_)
SumWidths(cols) == IF cols = <<>> THEN 0 ELSE DeclaredWidth(Head(cols).dtype) + SumWidths(Tail(cols))

\* C7 (as claimed): the stored row width is the sum of the columns' widths.
C7_RowWidthIsSum ==
    (res.op = "MakeStore" /\ res.err = "") => rawformat.opts.rowbytes = SumWidths(res.cols)

\* C8 (as claimed): putRow with an index in range, the right arity and a
\* value that cannot be coerced fails with TypeError, its message names
\* every column whose value cannot be coerced, and nothing is written.
C8_EveryFailingColumnNamed ==
    [][ (h.live /\ res'.op = "putRow" /\ InRange(h, res'.idx)
           /\ Len(res'.row) = Len(h.opts.dtypes)
           /\ FailingColumns(h.opts.dtypes, res'.row, py3) # {})
            => /\ res'.err = "TypeError"
               /\ res'.named = {h.opts.colnames[k] : k \in FailingColumns(h.opts.dtypes, res'.row, py3)}
               /\ store' = store
      ]_vars

\* C9 (as claimed): MakeStore on a new directory with N None, zero or
\* negative fails with ValueError and writes neither file.
C9_BadRowCountRejected ==
    [][ (~dirExists /\ res'.op = "MakeStore" /\ (res'.n = PyNone \/ res'.n.i <= 0))
            => (res'.err = "ValueError" /\ ~rawformat'.exists /\ ~store'.exists)
      ]_vars

Supported(dtype) == dtype.kind \in ScalarKinds \cup {"S"}

\* C10 (as claimed): MakeStore on a new directory with a usable N and a
\* column of a type without encoding fails with the unsupported-type error
\* (ValueError) and writes neither file; a descriptor that is written has as
\* many names as conversions as format items.
C10_UnsupportedTypeRejected ==
    [][ /\ (~dirExists /\ res'.op = "MakeStore" /\ res'.n.t = "int" /\ res'.n.i >= 1
              /\ \E k \in 1..Len(res'.cols) : ~Supported(res'.cols[k].dtype))
            => (res'.err = "ValueError" /\ ~rawformat'.exists /\ ~store'.exists)
        /\ rawformat'.exists
            => /\ Len(rawformat'.opts.colnames) = Len(rawformat'.opts.dtypes)
               /\ Len(rawformat'.opts.colnames) = Len(ParseFmt(rawformat'.opts.pack_format).items)
      ]_vars

\* C11 (as claimed): when appendBlankRows has extended the data file and the
\* read or the rewrite of the descriptor then fails, the object is left with
\* an open mapping, get succeeds on every row that was there before, and
\* the object's row count fits the data file.
C11_FailedPersistLeavesStoreOpen ==
    [][ (grow.pc \in {"flushed", "loaded", "truncated"} /\ grow'.pc = "idle"
           /\ res'.op = "appendBlankRows" /\ res'.err # "")
            => /\ h'.f = "mmap"
               /\ \A i \in 0..(h'.opts.N - grow.M - 1) : getResult(h', store'.bytes, py3, i).err = ""
               /\ h'.opts.N * h'.opts.rowbytes <= Len(store'.bytes)
      ]_vars

\* a handle whose mode permits no write
ReadOnlyHandle(hd) == hd.live /\ hd.mode \in {READONLY, READONCE}

\* C12: putRow on a read-only handle and appendBlankRows on a handle not in
\* append mode fail with an error and leave the data file, the descriptor
\* file, the object's row count and its mapping as they were.
C12_ModeViolation ==
    [][ ((ReadOnlyHandle(h) /\ res'.op = "putRow")
           \/ (h.live /\ h.mode # APPEND /\ res'.op = "appendBlankRows"))
            => /\ res'.err # ""
               /\ store' = store
               /\ rawformat' = rawformat
               /\ h'.opts.N = h.opts.N
               /\ h'.f = h.f
      ]_vars

\* a read-only mapping of a store holding a written row has refused a plain
\* row for an index in range
C12_Witness ==
    /\ h.live /\ h.mode = READONLY /\ h.f = "mmap"
    /\ res.op = "putRow" /\ res.err = "TypeError" /\ InRange(h, res.idx)
    /\ \E k \in 1..Len(store.bytes) : store.bytes[k] # 0

\* C13 (as claimed): on a handle opened with Mode.READONCE get(i) returns
\* row i for every i in range, and close() succeeds.
C13_ReadOnceReads ==
    [][ /\ (h.live /\ h.mode = READONCE /\ res'.op = "get" /\ InRange(h, res'.idx))
            => (res'.err = "" /\ Len(res'.val) = Len(h.opts.dtypes))
        /\ (h.live /\ h.mode = READONCE /\ res'.op = "close") => res'.err = ""
      ]_vars

\* C16 (as claimed): appendBlankRows(M) with M < 1 on an append-mode handle
\* with an open mapping fails with ValueError and leaves the row count, the
\* data file, the descriptor file and the mapping as they were, get
\* succeeding for every index in range.
C16_BadGrowthLeavesStoreUsable ==
    [][ (h.live /\ h.mode = APPEND /\ h.f = "mmap" /\ res'.op = "appendBlankRows" /\ res'.idx < 1)
            => /\ res'.err = "ValueError"
               /\ h'.opts.N = h.opts.N
               /\ store' = store
               /\ rawformat' = rawformat
               /\ h'.f = "mmap"
               /\ \A i \in 0..(h.opts.N - 1) : getResult(h', store'.bytes, py3, i).err = ""
      ]_vars

\* C17: after a successful appendBlankRows(M) the descriptor file holds the
\* descriptor it held with N replaced by old N + M, which is the object's
\* row count, and RawStore on the directory gives an object with that
\* descriptor.
C17_GrowthPersisted ==
    [][ (h.live /\ res'.op = "appendBlankRows" /\ res'.err = "")
            => /\ rawformat'.exists
               /\ rawformat'.opts = [rawformat.opts EXCEPT !.N = h.opts.N + res'.idx]
               /\ rawformat'.opts.N = h'.opts.N
               /\ LET r == RawStoreResult(READONLY, dirExists', rawformat', store')
                  IN r.err = "" /\ r.h.opts = [h.opts EXCEPT !.N = h.opts.N + res'.idx]
      ]_vars

\* a store has been grown beyond every size it can be made with, and a new
\* object opened on it has the grown row count
C17_Witness ==
    /\ res.op = "RawStore" /\ res.err = ""
    /\ h.live /\ h.opts.N > MaxGrowN
    /\ rawformat.opts.N = h.opts.N

\* the rows the descriptor file counts fit in the data file
MetadataWithinFile ==
    (rawformat.exists /\ ~Truncated(rawformat) /\ store.exists)
        => rawformat.opts.N * rawformat.opts.rowbytes <= Len(store.bytes)

\* C20: in every state inside and between appendBlankRows calls, a stop
\* after any line included, the row count in the descriptor file times the
\* row width is at most the length of the data file; the descriptor file
\* changes only once the data file has its new length, and after its
\* rewrite the call only reopens the file.
C20_MetadataNeverAhead ==
    /\ []MetadataWithinFile
    /\ [][ /\ (grow.pc # "idle" /\ rawformat' # rawformat)
                 => /\ ~grow.pending /\ store' = store
                    /\ Len(store.bytes) >= h.opts.N * h.opts.rowbytes
           /\ (grow.pc = "dumped")
                 => (rawformat' = rawformat /\ store' = store /\ grow'.pc = "idle")
         ]_vars

\* the process has stopped after the data file was extended and before the
\* descriptor was rewritten: the file is longer than the rows counted
C20_Witness ==
    /\ res.op = "stop"
    /\ rawformat.exists /\ ~Truncated(rawformat) /\ rawformat.opts.N >= 1
    /\ Len(store.bytes) > rawformat.opts.N * rawformat.opts.rowbytes + 1

\* C14 (as claimed): iter(store) gives an iterator that starts before row 0
\* and leaves the other iterators alone; each next() on an iterator moves
\* that iterator alone one row on and gives what get gives for that row, or
\* StopIteration once the rows are used up.
C14_RowIteration ==
    [][ /\ (h.live /\ res'.op = "iter")
            => /\ res'.err = ""
               /\ Len(its') = Len(its) + 1
               /\ its'[Len(its')].i = -1
               /\ \A j \in 1..Len(its) : its'[j] = its[j]
        /\ (h.live /\ res'.op = "iter.next")
            => \E k \in 1..Len(its) :
                   /\ its'[k].i = its[k].i + 1
                   /\ \A j \in 1..Len(its) : j # k => its'[j] = its[j]
                   /\ IF its'[k].i < h.opts.N
                      THEN LET g == getResult(h, store.bytes, py3, its'[k].i)
                           IN res'.err = g.err /\ res'.val = g.val
                      ELSE res'.err = "StopIteration"
      ]_vars

\* C15 (as claimed): once close() has closed the mapping, get, putRow,
\* write and every step of a column scan that has not ended fail with an
\* error, give no row data and leave the data file as it is.
C15_ClosedHandleFails ==
    [][ /\ (h.live /\ h.f = "closed" /\ res'.op \in {"get", "putRow", "write"})
            => (res'.err # "" /\ res'.val = <<>> /\ store' = store)
        /\ (h.live /\ h.f = "closed" /\ res'.op = "next" /\ ~scan.done)
            => (res'.err \notin {"", "StopIteration"} /\ res'.val = <<>> /\ store' = store)
      ]_vars

\* a row as get returns it when it was written as it is: text read as str
WrittenRow(row) ==
    [k \in 1..Len(row) |-> IF row[k].t \in {"str", "bytes"} THEN PyStr(row[k].s) ELSE row[k]]

\* C18 (as claimed): on a writable handle whose cursor stands at the start
\* of row j < row_count, write(row) writes row_width bytes there and moves
\* the cursor to the next row, the other bytes stay, and get(j) then
\* returns the row; a successful get or putRow leaves the cursor, which the
\* next write uses, after the row it touched.
C18_SequentialWrite ==
    [][ /\ (Writable(h) /\ res'.op = "write" /\ h.pos % h.opts.rowbytes = 0
               /\ h.pos \div h.opts.rowbytes < h.opts.N)
            => /\ res'.err = ""
               /\ h'.pos = h.pos + h.opts.rowbytes
               /\ Len(store'.bytes) = Len(store.bytes)
               /\ \A p \in 1..Len(store.bytes) :
                      (p <= h.pos \/ p > h.pos + h.opts.rowbytes) => store'.bytes[p] = store.bytes[p]
               /\ LET g == getResult(h', store'.bytes, py3, h.pos \div h.opts.rowbytes)
                  IN g.err = "" /\ g.val = WrittenRow(res'.row)
        /\ (Writable(h) /\ res'.op \in {"get", "putRow"} /\ res'.err = "")
            => h'.pos = (res'.idx + 1) * h.opts.rowbytes
      ]_vars

\* the outcome of the n-th next() of a scan that runs with nothing between
\* its steps
RECURSIVE ScanSteps(_, _, _, _, _)
ScanSteps(sc, hd, bytes, p3, n) ==
    LET r == nextResult(sc, hd, bytes, p3)
    IN IF n <= 1 THEN r ELSE ScanSteps(r.scan, [hd EXCEPT !.pos = r.pos], bytes, p3, n - 1)

ScanAlone(column, hd, bytes, p3, n) ==
    ScanSteps([NoScan EXCEPT !.live = TRUE, !.column = column], [hd EXCEPT !.pos = 0], bytes, p3, n)

====
